---- MODULE Spec2Model ----
(***************************************************************************)
(* The content-loading pipeline of src/src/lib/contentTypeLoader.js:       *)
(* getContentBySlug (the content record builder) and                       *)
(* getAllContentFromDirectory (the directory aggregator), with the         *)
(* library calls they make (gray-matter, Date, next-mdx-remote serialize,  *)
(* Promise.all, Array.prototype.sort, date-fns compareDesc) modelled by    *)
(* what they do on the values the loader hands them.                       *)
(*                                                                         *)
(* Three specifications share the variables:                               *)
(*   SpecBuild  one call of getContentBySlug on one file, every shape of   *)
(*              raw front matter;                                          *)
(*   SpecSort   the sort of lines 43-45 applied to every short sequence of *)
(*              built records;                                             *)
(*   Spec       one call of getAllContentFromDirectory over a directory,   *)
(*              with the per-file tasks settling in every order.           *)
(***************************************************************************)
EXTENDS Integers, Sequences, FiniteSets, TLC

VARIABLES
    directory,   \* the directory on disk: the entries readdirSync enumerates, in order
    slug,        \* SpecBuild: the slug argument of the getContentBySlug call
    type,        \* the caller-supplied content-type label
    slim,        \* the third argument of getAllContentFromDirectory, undefined when omitted
    pc,          \* position of the call under way
    single,      \* SpecBuild: the outcome of getContentBySlug
    tasks,       \* Spec: the promises of slugs.map(...), one per enumerated entry
    allPromise,  \* Spec: the promise returned by Promise.all
    articles,    \* the array awaited from Promise.all (SpecSort: the array to sort)
    outcome,     \* what getAllContentFromDirectory returned or threw
    fsLog,       \* the filesystem calls made so far, in order
    settled,     \* the indexes of the tasks, in the order their promises settled
    previous     \* SpecTwice: result and filesystem calls of the call made before

vars ==
    <<directory, slug, type, slim, pc, single, tasks, allPromise, articles, outcome, fsLog,
      settled, previous>>

----------------------------------------------------------------------------
(* Bounds of the model. *)

MaxFiles == 2      \* Spec: entries in the directory
MaxTags == 2       \* SpecBuild: elements of a raw tags array
MaxSortLen == 7    \* SpecSort: records in the array handed to sort
MaxTieLen == 4     \* SpecSort: records in an array with dates within one second

----------------------------------------------------------------------------
(* JavaScript values, tagged by kind. *)

Undefined == [k |-> "undefined"]
Null == [k |-> "null"]
Str(s) == [k |-> "string", s |-> s]
Bool(b) == [k |-> "boolean", b |-> b]
Num(n) == [k |-> "number", n |-> n]
Arr(items) == [k |-> "array", items |-> items]
Obj(fields) == [k |-> "object", fields |-> fields]

\* A string that Date parses as the instant ms (an ISO date such as '2020-03-30').
DateStr(ms) == [k |-> "string", s |-> "iso", ms |-> ms]
\* A Date object holding the instant ms; js-yaml yields one for an unquoted date.
DateObj(ms) == [k |-> "date", ms |-> ms]
\* The string Date.prototype.toUTCString prints for a valid date: whole seconds.
UTCStr(sec) == [k |-> "string", s |-> "utc", sec |-> sec]

\* The time value of an invalid Date.
NaN == -999999
MsPerSec == 1000

IsNullish(v) == v.k \in {"undefined", "null"}

\* ToBoolean, as the conditional operator applies it.
ToBoolean(v) ==
    CASE v.k = "boolean" -> v.b
      [] v.k \in {"undefined", "null"} -> FALSE
      [] v.k = "number" -> v.n # 0 /\ v.n # NaN
      [] v.k = "string" -> v # Str("")
      [] OTHER -> TRUE

\* Outcomes of a call: a returned value or a thrown error.
Return(v) == [ok |-> TRUE, value |-> v]
Throw(e) == [ok |-> FALSE, error |-> e]

----------------------------------------------------------------------------
(* File names: a base and the number of ".mdx" suffixes it carries. *)

Name(base, ext) == [base |-> base, ext |-> ext]
NoPath == Name("", 0)

\* Mutant of StripMdx: the suffix is left on the slug.
StripMdxNone(name) == name

\* slug.replace(/\.mdx$/, ''): one trailing ".mdx" is removed, if there is one.
StripMdx(name) == IF name.ext > 0 THEN Name(name.base, name.ext - 1) ELSE name

\* join(directory, `${realSlug}.mdx`)
FullPath(realSlug) == Name(realSlug.base, realSlug.ext + 1)

\* fs.readFileSync(fullPath, 'utf8'): the text of the entry of that name, or ENOENT.
ReadFileSync(dir, fullPath) ==
    IF \E i \in 1..Len(dir) : dir[i].name = fullPath
    THEN Return((CHOOSE e \in {dir[i] : i \in 1..Len(dir)} : e.name = fullPath).file)
    ELSE Throw([name |-> "ENOENT", path |-> fullPath])

----------------------------------------------------------------------------
(* gray-matter: a file text is an optional front-matter block and a body.  *)

EmptyData == [date |-> Undefined, tags |-> Undefined, type |-> Undefined]

FileText(fm, body) == [fm |-> fm, body |-> body]

\* A front-matter block whose YAML does not parse.
InvalidYaml == [k |-> "invalid-yaml"]
\* A block that is opened and never closed: the rest of the text is its YAML.
Unclosed(fields) == [k |-> "unclosed", fields |-> fields]

\* matter(fileContents): { data, content }. Without an opening delimiter data is
\* {} and content the whole text; a block is parsed by js-yaml, whose exception
\* is not caught; an unclosed block takes the rest of the text and leaves an
\* empty content.
Matter(fileContents) ==
    CASE fileContents.fm.k = "object" ->
            Return([data |-> fileContents.fm.fields, content |-> fileContents.body])
      [] fileContents.fm.k = "unclosed" ->
            Return([data |-> fileContents.fm.fields, content |-> ""])
      [] fileContents.fm.k = "invalid-yaml" ->
            Throw([name |-> "YAMLException", path |-> NoPath])
      [] OTHER -> Return([data |-> EmptyData, content |-> fileContents.body])

----------------------------------------------------------------------------
(* Date *)

\* new Date(v).getTime()
NewDate(v) ==
    CASE v.k = "undefined" -> NaN
      [] v.k = "null" -> 0
      [] v.k = "date" -> v.ms
      [] v.k = "number" -> v.n
      [] v.k = "string" ->
            (CASE v.s = "iso" -> v.ms
               [] v.s = "utc" -> v.sec * MsPerSec
               [] OTHER -> NaN)
      [] OTHER -> NaN

\* Date.prototype.toUTCString
ToUTCString(t) == IF t = NaN THEN Str("Invalid Date") ELSE UTCStr(t \div MsPerSec)

\* articleDate?.toUTCString() ?? undefined : articleDate is a Date object, never
\* nullish, so toUTCString is always called, and its result is never nullish.
FrontmatterDate(articleDate) ==
    LET s == ToUTCString(articleDate) IN IF IsNullish(s) THEN Undefined ELSE s

----------------------------------------------------------------------------
(* Tags *)

Slugify(s) ==
    CASE s = "api" -> "api"
      [] s = "REST APIs" -> "rest-apis"
      [] OTHER -> s

TagRecord(label, id) == [label |-> label, id |-> id]
FallbackTag == TagRecord("unknown", "unknown")

\* parseTag of ./tags
parseTag(tag) ==
    CASE tag.k = "string" -> TagRecord(tag.s, Slugify(tag.s))
      [] tag.k = "object" -> tag.fields
      [] OTHER -> FallbackTag

RECURSIVE MapParseTagSkipping(_)
\* Mutant of MapParseTag: a tag of no recognized shape is dropped.
MapParseTagSkipping(items) ==
    IF items = <<>> THEN <<>>
    ELSE (IF Head(items).k \in {"string", "object"} THEN <<parseTag(Head(items))>> ELSE <<>>)
            \o MapParseTagSkipping(Tail(items))

RECURSIVE MapParseTag(_)
\* Array.prototype.map with (tag) => parseTag(tag)
MapParseTag(items) ==
    IF items = <<>> THEN <<>>
    ELSE <<parseTag(Head(items))>> \o MapParseTag(Tail(items))

\* Mutant of FrontmatterTags: the "|| []" default is missing.
FrontmatterTagsNoDefault(rawTags) ==
    CASE IsNullish(rawTags) -> Return(Undefined)
      [] rawTags.k = "array" -> Return(Arr(MapParseTag(rawTags.items)))
      [] OTHER -> Throw([name |-> "TypeError", path |-> NoPath])

\* tags: data?.tags?.map((tag) => parseTag(tag)) || []
\* A non-nullish value without a map method makes the call throw a TypeError.
FrontmatterTags(rawTags) ==
    CASE IsNullish(rawTags) -> Return(Arr(<<>>))
      [] rawTags.k = "array" -> Return(Arr(MapParseTag(rawTags.items)))
      [] OTHER -> Throw([name |-> "TypeError", path |-> NoPath])

----------------------------------------------------------------------------
(* next-mdx-remote *)

\* serialize(content, mdxOptions): the compiled body, or the compiler's error,
\* which is built from the content alone.
Serialize(content) ==
    IF content = "<bad" THEN Throw([name |-> "MDXError", path |-> NoPath])
    ELSE Return([compiledSource |-> content])

----------------------------------------------------------------------------
(* getContentBySlug *)

\* The statements before the await: lines 13-19.
ReadAndParse(s, dir) ==
    LET realSlug == StripMdx(s)
        fullPath == FullPath(realSlug)
        fileContents == ReadFileSync(dir, fullPath)
    IN  IF ~fileContents.ok THEN fileContents
        ELSE LET m == Matter(fileContents.value)
             IN  IF ~m.ok THEN m
                 ELSE Return([realSlug |-> realSlug, data |-> m.value.data,
                              content |-> m.value.content,
                              articleDate |-> NewDate(m.value.data.date)])

\* Mutant of ObjectSpread: the keys of the spread object are lost.
ObjectSpreadDropsFirst(a, b) == [key \in DOMAIN b |-> b[key]]

\* { ...a, <the keys of b> }: the keys of both, those of b winning.
ObjectSpread(a, b) ==
    [key \in DOMAIN a \cup DOMAIN b |-> IF key \in DOMAIN b THEN b[key] ELSE a[key]]

\* Mutant of Frontmatter: the spread comes last, so a type key of the file wins.
FrontmatterSpreadLast(data, date, tags, t) ==
    ObjectSpread([date |-> date, tags |-> tags,
                  type |-> IF data.type = Undefined THEN Str(t) ELSE data.type],
                 [date |-> date, tags |-> tags])

\* { ...data, date: ..., tags: ..., type }, lines 25-30
Frontmatter(data, date, tags, t) ==
    ObjectSpread(data, [date |-> date, tags |-> tags, type |-> Str(t)])

\* The return expression, lines 23-33, evaluated once serialize has fulfilled.
BuildRecord(p, mdxSource, t) ==
    LET tags == FrontmatterTags(p.data.tags)
    IN  IF ~tags.ok THEN tags
        ELSE Return([slug |-> p.realSlug,
                     frontmatter |-> Frontmatter(p.data, FrontmatterDate(p.articleDate),
                                                 tags.value, t),
                     content |-> p.content,
                     source |-> mdxSource])

\* Mutant of CompileAndBuild: a compilation failure is swallowed and the record is
\* returned without a compiled source.
CompileAndBuildPartial(p, t) ==
    LET mdxSource == Serialize(p.content)
    IN  BuildRecord(p, IF mdxSource.ok THEN mdxSource.value ELSE Undefined, t)

\* The statements from the await on: lines 21-33.
CompileAndBuild(p, t) ==
    LET mdxSource == Serialize(p.content)
    IN  IF ~mdxSource.ok THEN mdxSource ELSE BuildRecord(p, mdxSource.value, t)

getContentBySlug(s, dir, t) ==
    LET p == ReadAndParse(s, dir)
    IN  IF ~p.ok THEN p ELSE CompileAndBuild(p.value, t)

----------------------------------------------------------------------------
(* The sort of getAllContentFromDirectory, lines 43-45. *)

\* date-fns compareDesc on two time values: -1, 1, 0, or NaN when either is NaN.
compareDesc(dateLeft, dateRight) ==
    IF dateLeft = NaN \/ dateRight = NaN THEN NaN
    ELSE LET diff == dateLeft - dateRight
         IN  IF diff > 0 THEN -1 ELSE IF diff < 0 THEN 1 ELSE diff

\* (a, b) => compareDesc(new Date(a?.frontmatter?.date), new Date(b?.frontmatter?.date))
Comparefn(a, b) == compareDesc(NewDate(a.frontmatter.date), NewDate(b.frontmatter.date))

\* Array.prototype.sort calls the comparator and reads a NaN result as +0.
SortCompare(x, y) == LET v == Comparefn(x, y) IN IF v = NaN THEN 0 ELSE v

Reverse(s) == [i \in 1..Len(s) |-> s[Len(s) + 1 - i]]

RECURSIVE RunLength(_, _, _)
\* The length of the run that starts the array: it ends before the element at idx
\* (or a later one) that breaks the run's direction.
RunLength(a, idx, isDescending) ==
    IF idx > Len(a) THEN idx - 1
    ELSE LET order == SortCompare(a[idx], a[idx - 1])
         IN  IF (isDescending /\ order >= 0) \/ (~isDescending /\ order < 0)
             THEN idx - 1
             ELSE RunLength(a, idx + 1, isDescending)

\* The array with its first run made ascending, and that run's length.
CountAndMakeRun(a) ==
    LET isDescending == SortCompare(a[2], a[1]) < 0
        runLength == RunLength(a, 3, isDescending)
    IN  [run |-> runLength,
         arr |-> IF isDescending
                 THEN Reverse(SubSeq(a, 1, runLength)) \o SubSeq(a, runLength + 1, Len(a))
                 ELSE a]

RECURSIVE BinarySearch(_, _, _, _)
\* Where pivot goes among a[left..right-1]: after every element it does not precede.
BinarySearch(a, pivot, left, right) ==
    IF left >= right THEN left
    ELSE LET mid == left + ((right - left) \div 2)
         IN  IF SortCompare(pivot, a[mid]) < 0
             THEN BinarySearch(a, pivot, left, mid)
             ELSE BinarySearch(a, pivot, mid + 1, right)

RECURSIVE BinaryInsertionSortOverwrite(_, _)
\* Mutant of BinaryInsertionSort: the shift overwrites the pivot, which is never
\* stored.
BinaryInsertionSortOverwrite(a, start) ==
    IF start > Len(a) THEN a
    ELSE LET left == BinarySearch(a, a[start], 1, start)
         IN  BinaryInsertionSortOverwrite(
                 SubSeq(a, 1, left - 1) \o <<a[left]>> \o SubSeq(a, left, start - 1)
                     \o SubSeq(a, start + 1, Len(a)),
                 start + 1)

RECURSIVE BinaryInsertionSort(_, _)
\* a[1..start-1] is sorted; the elements from start on are inserted one by one.
BinaryInsertionSort(a, start) ==
    IF start > Len(a) THEN a
    ELSE LET pivot == a[start]
             left == BinarySearch(a, pivot, 1, start)
         IN  BinaryInsertionSort(
                 SubSeq(a, 1, left - 1) \o <<pivot>> \o SubSeq(a, left, start - 1)
                     \o SubSeq(a, start + 1, Len(a)),
                 start + 1)

\* articles.sort(comparefn) as the runtime of the site (Node.js, V8) sorts an
\* array of fewer than 64 elements: the first run is found, the rest is
\* inserted by binary insertion.
ArraySort(a) ==
    IF Len(a) < 2 THEN a
    ELSE LET r == CountAndMakeRun(a) IN BinaryInsertionSort(r.arr, r.run + 1)

----------------------------------------------------------------------------
(* The shaping of the result, lines 47-52. *)

\* Mutant of SlimParameter: the default of the parameter is false.
SlimParameterFalse(arg) == IF arg = Undefined THEN Bool(FALSE) ELSE arg

\* slim = true in the parameter list: the default applies to undefined only.
SlimParameter(arg) == IF arg = Undefined THEN Bool(TRUE) ELSE arg

\* Mutant of TrimmedArticle: the raw content is removed with the source.
TrimmedArticleNoContent(article) ==
    [slug |-> article.slug, frontmatter |-> article.frontmatter]

\* const { source: _, ...trimmedArticle } = article
TrimmedArticle(article) ==
    [slug |-> article.slug, frontmatter |-> article.frontmatter, content |-> article.content]

\* Mutant of Shaped: the test of the flag is inverted.
ShapedInverted(article, s) == IF ToBoolean(s) THEN article ELSE TrimmedArticle(article)

\* slim ? trimmedArticle : article
Shaped(article, s) == IF ToBoolean(s) THEN TrimmedArticle(article) ELSE article

\* articles.map((article) => ...)
ShapeAll(as, s) == [i \in 1..Len(as) |-> Shaped(as[i], s)]

----------------------------------------------------------------------------
(* Inputs *)

RECURSIVE SeqsUpTo(_, _)
\* The sequences over S of length at most n.
SeqsUpTo(S, n) ==
    IF n = 0 THEN {<<>>}
    ELSE LET shorter == SeqsUpTo(S, n - 1)
         IN  shorter \cup {Append(q, x) : q \in {r \in shorter : Len(r) = n - 1}, x \in S}

Instants == {1000, 1500, 2000}

\* Raw date values of a front matter: no key, an empty value, strings that do and
\* do not parse, and the Date of an unquoted YAML date.
RawDates ==
    {Undefined, Null, Str("not-a-date"), Str("")}
        \cup {DateStr(t) : t \in Instants} \cup {DateObj(t) : t \in Instants}

\* Raw tag elements: strings, a structured tag, a value of no tag shape.
RawTagElems == {Str("api"), Str("REST APIs"), Obj(TagRecord("GraphQL", "graphql")), Num(7)}

\* Raw tags values: no key, an empty value, a single scalar, an array.
RawTags == {Undefined, Null, Str("api")} \cup {Arr(q) : q \in SeqsUpTo(RawTagElems, MaxTags)}

RawTypes == {Undefined, Str("page")}

Bodies == {"# ok", "<bad"}

FrontMatters ==
    {Undefined} \cup {Obj([date |-> d, tags |-> g, type |-> y]) :
                        d \in RawDates, g \in RawTags, y \in RawTypes}

\* Files whose front-matter block is malformed.
MalformedFiles ==
    {FileText(InvalidYaml, b) : b \in Bodies}
        \cup {FileText(Unclosed([date |-> DateStr(1000), tags |-> Undefined,
                                  type |-> Undefined]), "")}

\* Files whose front matter has free-form keys besides date, tags and type.
FreeFormFiles ==
    {FileText(Obj([date |-> d, tags |-> Undefined, type |-> y,
                   title |-> Str("Useful API Errors"), author |-> Str("Phil Sturgeon"),
                   coverImage |-> Null]), "# ok") :
        d \in {Undefined, DateObj(1000)}, y \in RawTypes}

\* SpecBuild: every file text.
BuildFiles ==
    {FileText(fm, b) : fm \in FrontMatters, b \in Bodies} \cup MalformedFiles \cup FreeFormFiles

\* Spec: the file texts of a directory (a date or none, tags or a scalar, a body
\* that compiles or not).
DirFiles ==
    {FileText(Obj([date |-> d, tags |-> g, type |-> Str("blog")]), b) :
        d \in {Undefined, DateStr(1000), DateStr(2000)},
        g \in {Undefined, Str("api")},
        b \in Bodies}

PostA == Name("post-a", 1)
PostB == Name("post-b", 1)
PostC == Name("post-c", 1)
DirNames == {PostA, PostB, PostC, Name("post-a", 0)}
\* An entry whose name does not end in .mdx: its text is never the one read.
StrayFile == FileText(Undefined, "# ok")

\* The entries a directory may hold.
DirEntries ==
    {e \in [name : DirNames, file : DirFiles \cup {StrayFile}] :
        (e.name.ext = 0) = (e.file = StrayFile)}

RECURSIVE Directories(_)
\* The directories of at most n entries: distinct names, in any enumeration order.
Directories(n) ==
    IF n = 0 THEN {<<>>}
    ELSE LET smaller == Directories(n - 1)
         IN  smaller \cup
                {Append(pr[1], pr[2]) :
                    pr \in {x \in {d \in smaller : Len(d) = n - 1} \X DirEntries :
                               \A i \in 1..Len(x[1]) : x[1][i].name # x[2].name}}

\* SpecSort: the raw dates of the files whose records are sorted.
SortRawDates == {Str("not-a-date"), DateStr(1000), DateStr(2000), DateStr(3000)}
SortName(i) == Name(ToString(i), 1)
BuildSlugs == {PostA, Name("post-a", 0), Name("post-a", 2), PostB}

\* SpecSort: the raw dates of the files of a directory of n entries; the short
\* ones also hold a date half a second after another.
SortDates(n) == IF n <= MaxTieLen THEN SortRawDates \cup {DateStr(1500)} ELSE SortRawDates

Types == {"blog"}
BuildTypes == {"blog", "books"}

\* Filesystem calls
ReadDir == [op |-> "readdirSync", path |-> NoPath]
ReadFile(path) == [op |-> "readFileSync", path |-> path]

\* Promises
Pending(p) == [st |-> "pending", parsed |-> p]
Fulfilled(v) == [st |-> "fulfilled", value |-> v]
Rejected(e) == [st |-> "rejected", reason |-> e]
NoOutcome == [st |-> "none"]

----------------------------------------------------------------------------
(* SpecBuild: one call of getContentBySlug. *)

InitBuild ==
    /\ \E f \in BuildFiles : directory = <<[name |-> PostA, file |-> f]>>
    /\ slug \in BuildSlugs
    /\ type \in BuildTypes
    /\ slim = Bool(TRUE)
    /\ pc = "build"
    /\ single = NoOutcome
    /\ tasks = <<>>
    /\ allPromise = NoOutcome
    /\ articles = <<>>
    /\ outcome = NoOutcome
    /\ fsLog = <<>>
    /\ settled = <<>>
    /\ previous = NoOutcome

\* Mutant of CallGetContentBySlug: the file is tested for existence before it is
\* read.
CallGetContentBySlugExists ==
    /\ pc = "build"
    /\ single' = getContentBySlug(slug, directory, type)
    /\ fsLog' = fsLog \o <<[op |-> "existsSync", path |-> FullPath(StripMdx(slug))],
                           ReadFile(FullPath(StripMdx(slug)))>>
    /\ pc' = "built"
    /\ UNCHANGED <<directory, slug, type, slim, tasks, allPromise, articles, outcome, settled,
                   previous>>

CallGetContentBySlug ==
    /\ pc = "build"
    /\ single' = getContentBySlug(slug, directory, type)
    /\ fsLog' = Append(fsLog, ReadFile(FullPath(StripMdx(slug))))
    /\ pc' = "built"
    /\ UNCHANGED <<directory, slug, type, slim, tasks, allPromise, articles, outcome, settled,
                   previous>>

NextBuild == CallGetContentBySlug

SpecBuild == InitBuild /\ [][NextBuild]_vars

----------------------------------------------------------------------------
(* Promise.all over the promises of slugs.map(...), lines 38-40. *)

Values(ts) == [i \in 1..Len(ts) |-> ts[i].value]

\* Promise.all(promises) at the call: a promise already rejected (its file could
\* not be read) rejects it, the first in array order winning; no promise at all
\* fulfils it.
PromiseAllCalled(ts) ==
    LET rejected == {i \in 1..Len(ts) : ts[i].st = "rejected"}
    IN  IF rejected # {}
        THEN Rejected(ts[CHOOSE i \in rejected : \A j \in rejected : i <= j].reason)
        ELSE IF ts = <<>> THEN Fulfilled(<<>>) ELSE [st |-> "pending"]

\* Mutant of PromiseAllSettled: the values are collected in completion order (the
\* value of the promise that settles last comes last).
PromiseAllCompletionOrder(all, ts, i) ==
    IF all.st # "pending" THEN all
    ELSE IF ts[i].st = "rejected" THEN Rejected(ts[i].reason)
    ELSE IF \A j \in 1..Len(ts) : ts[j].st = "fulfilled"
    THEN Fulfilled(Values(SubSeq(ts, 1, i - 1) \o SubSeq(ts, i + 1, Len(ts)) \o <<ts[i]>>))
    ELSE all

\* Mutant of PromiseAllSettled: the first fulfilment fulfils it (as Promise.any
\* would), with the values there are so far.
PromiseAllFirstFulfilled(all, ts, i) ==
    IF all.st # "pending" THEN all
    ELSE IF ts[i].st = "rejected" THEN Rejected(ts[i].reason)
    ELSE Fulfilled(Values(SelectSeq(ts, LAMBDA t : t.st = "fulfilled")))

\* Mutant of PromiseAllSettled: a later rejection replaces the reason of an
\* earlier one.
PromiseAllLastRejection(all, ts, i) ==
    IF ts[i].st = "rejected" THEN Rejected(ts[i].reason)
    ELSE IF all.st # "pending" THEN all
    ELSE IF \A j \in 1..Len(ts) : ts[j].st = "fulfilled" THEN Fulfilled(Values(ts))
    ELSE all

\* Mutant of PromiseAllSettled: the last fulfilment does not fulfil it.
PromiseAllNeverFulfils(all, ts, i) ==
    IF all.st # "pending" THEN all
    ELSE IF ts[i].st = "rejected" THEN Rejected(ts[i].reason)
    ELSE all

\* Mutant of PromiseAllSettled: Promise.allSettled with the failures filtered out.
PromiseAllSkipsRejected(all, ts, i) ==
    IF all.st # "pending" THEN all
    ELSE IF \A j \in 1..Len(ts) : ts[j].st # "pending"
    THEN Fulfilled(Values(SelectSeq(ts, LAMBDA t : t.st = "fulfilled")))
    ELSE all

\* Promise.all when promise i settles: the first rejection rejects it, the last
\* fulfilment fulfils it with the values in array order; once settled it stays.
PromiseAllSettled(all, ts, i) ==
    IF all.st # "pending" THEN all
    ELSE IF ts[i].st = "rejected" THEN Rejected(ts[i].reason)
    ELSE IF \A j \in 1..Len(ts) : ts[j].st = "fulfilled" THEN Fulfilled(Values(ts))
    ELSE all

----------------------------------------------------------------------------
(* Spec: one call of getAllContentFromDirectory. *)

Init ==
    /\ directory \in Directories(MaxFiles)
    /\ slug = NoPath
    /\ type \in Types
    /\ slim \in {Bool(TRUE), Bool(FALSE)}
    /\ pc = "start"
    /\ single = NoOutcome
    /\ tasks = <<>>
    /\ allPromise = NoOutcome
    /\ articles = <<>>
    /\ outcome = NoOutcome
    /\ fsLog = <<>>
    /\ settled = <<>>
    /\ previous = NoOutcome

\* Lines 37-40 up to the await: readdirSync, then every async callback runs to its
\* first await (read, front matter, date), or rejects at the read.
StartAll ==
    /\ pc = "start"
    /\ LET slugs == [i \in 1..Len(directory) |-> directory[i].name]
           started == [i \in 1..Len(slugs) |->
                          LET p == ReadAndParse(slugs[i], directory)
                          IN  IF p.ok THEN Pending(p.value) ELSE Rejected(p.error)]
       IN  /\ tasks' = started
           /\ allPromise' = PromiseAllCalled(started)
           /\ fsLog' = fsLog \o <<ReadDir>>
                            \o [i \in 1..Len(slugs) |-> ReadFile(FullPath(StripMdx(slugs[i])))]
           /\ settled' = SelectSeq([i \in 1..Len(slugs) |-> i],
                                    LAMBDA i : started[i].st = "rejected")
    /\ pc' = "awaiting"
    /\ UNCHANGED <<directory, slug, type, slim, single, articles, outcome, previous>>

\* Mutant of Settle: in slim mode the record is built without compiling the file.
SettleSlimSkipsCompile(i) ==
    /\ pc # "start"
    /\ i \in 1..Len(tasks)
    /\ tasks[i].st = "pending"
    /\ LET r == IF ToBoolean(SlimParameter(slim))
                THEN BuildRecord(tasks[i].parsed, Undefined, type)
                ELSE CompileAndBuild(tasks[i].parsed, type)
           after == [tasks EXCEPT ![i] = IF r.ok THEN Fulfilled(r.value)
                                           ELSE Rejected(r.error)]
       IN  /\ tasks' = after
           /\ allPromise' = PromiseAllSettled(allPromise, after, i)
    /\ settled' = Append(settled, i)
    /\ UNCHANGED <<directory, slug, type, slim, pc, single, articles, outcome, fsLog,
                   previous>>

\* serialize settles for task i and getContentBySlug runs to its end; the tasks
\* are not cancelled when the aggregation has already failed.
Settle(i) ==
    /\ pc # "start"
    /\ i \in 1..Len(tasks)
    /\ tasks[i].st = "pending"
    /\ LET r == CompileAndBuild(tasks[i].parsed, type)
           after == [tasks EXCEPT ![i] = IF r.ok THEN Fulfilled(r.value)
                                           ELSE Rejected(r.error)]
       IN  /\ tasks' = after
           /\ allPromise' = PromiseAllSettled(allPromise, after, i)
    /\ settled' = Append(settled, i)
    /\ UNCHANGED <<directory, slug, type, slim, pc, single, articles, outcome, fsLog,
                   previous>>

\* The await of line 38 throws the reason of the rejected Promise.all.
ResumeThrow ==
    /\ pc = "awaiting"
    /\ allPromise.st = "rejected"
    /\ outcome' = Throw(allPromise.reason)
    /\ pc' = "threw"
    /\ UNCHANGED <<directory, slug, type, slim, single, tasks, allPromise, articles, fsLog,
                   settled, previous>>

\* The await of line 38 yields the records; lines 43-52 sort, shape and return them.
ResumeSortReturn ==
    /\ pc = "awaiting"
    /\ allPromise.st = "fulfilled"
    /\ articles' = ArraySort(allPromise.value)
    /\ outcome' = Return(ShapeAll(articles', SlimParameter(slim)))
    /\ pc' = "returned"
    /\ UNCHANGED <<directory, slug, type, slim, single, tasks, allPromise, fsLog, settled,
                   previous>>

Next ==
    \/ StartAll
    \/ \E i \in 1..MaxFiles : Settle(i)
    \/ ResumeThrow
    \/ ResumeSortReturn

Spec == Init /\ [][Next]_vars

\* The files of the directories of SpecLive: a task ends by returning, by a
\* compile error or by a TypeError on the tags, whatever the date.
LiveFiles == {f \in DirFiles : f.fm.fields.date = DateStr(1000)}

\* What a caller may pass as the third argument; undefined is the omitted one.
Flags == {Undefined, Null, Bool(TRUE), Bool(FALSE), Num(0), Num(1), Str(""), Str("yes")}

\* SpecMode: the call with any third argument, over the directories of SpecLive.
InitMode ==
    /\ directory \in {d \in Directories(MaxFiles) :
                         \A i \in 1..Len(d) : d[i].file \in LiveFiles \cup {StrayFile}}
    /\ slug = NoPath
    /\ type \in Types
    /\ slim \in Flags
    /\ pc = "start"
    /\ single = NoOutcome
    /\ tasks = <<>>
    /\ allPromise = NoOutcome
    /\ articles = <<>>
    /\ outcome = NoOutcome
    /\ fsLog = <<>>
    /\ settled = <<>>
    /\ previous = NoOutcome

SpecMode == InitMode /\ [][Next]_vars

\* Spec with its scheduling: the synchronous part of the call runs, every
\* serialize promise eventually settles, and a settled await resumes (the event
\* loop runs every queued job).
Fairness ==
    /\ WF_vars(StartAll)
    /\ \A i \in 1..MaxFiles : WF_vars(Settle(i))
    /\ WF_vars(ResumeThrow)
    /\ WF_vars(ResumeSortReturn)

InitLive ==
    /\ Init
    /\ \A i \in 1..Len(directory) : directory[i].file \in LiveFiles \cup {StrayFile}

SpecLive == InitLive /\ [][Next]_vars /\ Fairness

----------------------------------------------------------------------------
(* SpecSort: the aggregation of a directory whose files all load, from the     *)
(* moment every task has fulfilled.                                           *)

InitSort ==
    /\ \E n \in 0..MaxSortLen : \E dates \in [1..n -> SortDates(n)] :
          directory = [i \in 1..n |->
                          [name |-> SortName(i),
                           file |-> FileText(Obj([date |-> dates[i], tags |-> Undefined,
                                                  type |-> Str("blog")]), "# ok")]]
    /\ slug = NoPath
    /\ type \in Types
    /\ slim = Bool(TRUE)
    /\ pc = "awaiting"
    /\ single = NoOutcome
    /\ tasks = [i \in 1..Len(directory) |->
                   Fulfilled(getContentBySlug(directory[i].name, directory, type).value)]
    /\ allPromise = Fulfilled(Values(tasks))
    /\ articles = <<>>
    /\ outcome = NoOutcome
    /\ fsLog = <<ReadDir>> \o [i \in 1..Len(directory) |->
                                ReadFile(FullPath(StripMdx(directory[i].name)))]
    /\ settled = [i \in 1..Len(directory) |-> i]
    /\ previous = NoOutcome

NextSort == ResumeSortReturn

SpecSort == InitSort /\ [][NextSort]_vars

----------------------------------------------------------------------------
(* SpecTwice: a call followed by a second call with the same arguments over the *)
(* same directory.  The module keeps no state of its own (lines 1-10 are        *)
(* imports): everything a call uses is a parameter or a const of its body.     *)

Done(result, log) == [st |-> "done", result |-> result, fsLog |-> log]

\* A second call of getContentBySlug: realSlug, fullPath, data, ... are new consts.
BuildAgain ==
    /\ pc = "built"
    /\ previous = NoOutcome
    /\ previous' = Done(single, fsLog)
    /\ single' = NoOutcome
    /\ pc' = "build"
    /\ UNCHANGED <<directory, slug, type, slim, tasks, allPromise, articles, outcome, fsLog,
                   settled>>

\* Mutant of CallAgain: the module caches the result and the second call returns
\* it without reading the directory.
CallAgainCached ==
    /\ pc \in {"returned", "threw"}
    /\ previous = NoOutcome
    /\ previous' = Done(outcome, fsLog)
    /\ UNCHANGED <<directory, slug, type, slim, pc, single, tasks, allPromise, articles,
                   outcome, fsLog, settled>>

\* A second call of getAllContentFromDirectory: slugs and articles are new consts.
CallAgain ==
    /\ pc \in {"returned", "threw"}
    /\ previous = NoOutcome
    /\ previous' = Done(outcome, fsLog)
    /\ tasks' = <<>>
    /\ allPromise' = NoOutcome
    /\ articles' = <<>>
    /\ outcome' = NoOutcome
    /\ settled' = <<>>
    /\ pc' = "start"
    /\ UNCHANGED <<directory, slug, type, slim, single, fsLog>>

InitTwice == Init \/ InitBuild

NextTwice ==
    \/ Next
    \/ NextBuild
    \/ CallAgain
    \/ BuildAgain

SpecTwice == InitTwice /\ [][NextTwice]_vars

----------------------------------------------------------------------------
(* Claims *)

Built == pc = "built" /\ single.ok
Parsed == ReadAndParse(slug, directory)
Returned == pc = "returned"
SlimMode == ToBoolean(SlimParameter(slim))
IsValidDate(v) == NewDate(v) # NaN
DateOf(article) == article.frontmatter.date

\* C1: a raw date that is missing or does not parse leaves the record without a
\* date; frontmatter.date is never the string "Invalid Date".
C1_InvalidDateIsAbsent ==
    Built =>
        /\ DateOf(single.value) # Str("Invalid Date")
        /\ (Parsed.value.articleDate = NaN => DateOf(single.value) = Undefined)

\* C2: the returned collection is in descending date order: of two records with
\* valid dates, the earlier in the result is not the older.
C2_NewestFirst ==
    Returned =>
        \A i, j \in 1..Len(outcome.value) :
            (/\ i < j
             /\ IsValidDate(DateOf(outcome.value[i]))
             /\ IsValidDate(DateOf(outcome.value[j])))
                => NewDate(DateOf(outcome.value[i])) >= NewDate(DateOf(outcome.value[j]))

\* C3: no record without a valid date comes before a record with one.
C3_MalformedDatesLast ==
    Returned =>
        \A i, j \in 1..Len(outcome.value) :
            (i < j /\ ~IsValidDate(DateOf(outcome.value[i])))
                => ~IsValidDate(DateOf(outcome.value[j]))

\* The position a returned record had in the array handed to sort.
SourceIndex(article) ==
    CHOOSE i \in 1..Len(allPromise.value) : allPromise.value[i].slug = article.slug

\* C4: the sort is stable: records with identical dates keep the relative order
\* they had before the sort.
C4_StableSort ==
    Returned =>
        \A i, j \in 1..Len(outcome.value) :
            (i < j /\ DateOf(outcome.value[i]) = DateOf(outcome.value[j]))
                => SourceIndex(outcome.value[i]) < SourceIndex(outcome.value[j])

\* C5: when the read or the compile of a file has failed, the aggregation never
\* returns a collection.
C5_FailsAsAWhole ==
    (\E i \in 1..Len(tasks) : tasks[i].st = "rejected") => ~Returned

\* C5 witness: a file has failed, another has loaded, and the aggregation threw.
C5_Witness ==
    /\ pc = "threw"
    /\ \E i \in 1..Len(tasks) : tasks[i].st = "rejected"
    /\ \E i \in 1..Len(tasks) : tasks[i].st = "fulfilled"

\* C6: when the MDX compiler fails on a file, the error the aggregation fails
\* with names the slug of that file.
C6_CompileErrorNamesSlug ==
    (pc = "threw" /\ outcome.error.name = "MDXError") =>
        \E i \in 1..Len(directory) :
            outcome.error.path \in {StripMdx(directory[i].name),
                                    FullPath(StripMdx(directory[i].name))}

\* C7: in slim mode no returned record has a source field; in full mode every
\* returned record has one.
C7_SlimDropsSource ==
    Returned =>
        \A i \in 1..Len(outcome.value) :
            ("source" \in DOMAIN outcome.value[i]) = ~SlimMode

\* C7 witness: a full-mode call returned two records.
C7_Witness == Returned /\ ~SlimMode /\ Len(outcome.value) = 2

\* C8: frontmatter.tags of a returned record is an array, and the empty one when
\* the file has no tags field or no front matter.
C8_TagsAlwaysArray ==
    Built =>
        /\ single.value.frontmatter.tags.k = "array"
        /\ (Parsed.value.data.tags = Undefined
                => single.value.frontmatter.tags = Arr(<<>>))

\* C8 witness: a record was built from a file without front matter.
C8_Witness == Built /\ directory[1].file.fm = Undefined

\* C9: no raw tags value aborts the load: a file that is read and whose body
\* compiles yields a record.
C9_TagsNeverAbort ==
    (pc = "built" /\ Parsed.ok /\ Serialize(Parsed.value.content).ok) => single.ok

\* C10: the output tags have the length of the raw tags array, and the i-th is
\* the normalization of the i-th raw tag.
C10_TagsKeepLengthAndOrder ==
    (Built /\ Parsed.value.data.tags.k = "array") =>
        LET raw == Parsed.value.data.tags.items
            out == single.value.frontmatter.tags.items
        IN  /\ Len(out) = Len(raw)
            /\ \A i \in 1..Len(raw) : out[i] = parseTag(raw[i])

\* C10 witness: a record was built from two different raw tags.
C10_Witness ==
    /\ Built
    /\ Parsed.value.data.tags.k = "array"
    /\ Len(Parsed.value.data.tags.items) = 2
    /\ parseTag(Parsed.value.data.tags.items[1]) # parseTag(Parsed.value.data.tags.items[2])

\* C11: frontmatter.type of a returned record is the caller's type argument,
\* whatever type key the file's front matter holds.
C11_TypeIsCallerArgument == Built => single.value.frontmatter.type = Str(type)

\* C11 witness: a record was built from a file whose front matter has its own type.
C11_Witness == Built /\ Parsed.value.data.type = Str("page")

\* The text getContentBySlug reads for the slug of the call, if there is one.
FileRead == ReadFileSync(directory, FullPath(StripMdx(slug)))

\* C12: a file with no front-matter block, or a malformed one, parses to empty
\* metadata and a body equal to the whole text, and getContentBySlug returns a
\* record for it (when its body compiles).
C12_MissingFrontMatterIsNoError ==
    (pc = "built" /\ FileRead.ok /\ FileRead.value.fm.k # "object") =>
        LET m == Matter(FileRead.value)
        IN  /\ m.ok
            /\ m.value.data = EmptyData
            /\ FileText(Undefined, m.value.content) = FileRead.value
            /\ (Serialize(m.value.content).ok => single.ok)

\* The slug s without one trailing ".mdx".
WithoutTrailingMdx(s) == Name(s.base, IF s.ext > 0 THEN s.ext - 1 ELSE 0)

\* C13: the file read is <s without trailing .mdx>.mdx, the record's slug is s
\* without the trailing .mdx, and the slugs "x" and "x.mdx" give the same outcome.
C13_SlugStrippedBeforePath ==
    pc = "built" =>
        /\ fsLog = <<ReadFile(Name(slug.base, WithoutTrailingMdx(slug).ext + 1))>>
        /\ (single.ok => single.value.slug = WithoutTrailingMdx(slug))
        /\ (slug.ext <= 1 =>
                single = getContentBySlug(Name(slug.base, 1 - slug.ext), directory, type))

\* C13 witness: a record was built for a slug given with its .mdx suffix.
C13_Witness == Built /\ slug.ext = 1 /\ single.value.slug.ext = 0

\* Whether a record holds what the text of a directory entry yields.
BuiltFromEntry(article, e) ==
    LET m == Matter(e.file)
    IN  /\ m.ok
        /\ article.content = m.value.content
        /\ DateOf(article) = FrontmatterDate(NewDate(m.value.data.date))

\* C14: the result has one record per enumerated entry, the i-th task's record
\* built from the contents of the i-th entry itself, whatever the entry's name.
C14_OneRecordPerEntry ==
    Returned =>
        /\ Len(outcome.value) = Len(directory)
        /\ \A i \in 1..Len(directory) : BuiltFromEntry(tasks[i].value, directory[i])

\* C15: no two records of a returned collection have the same slug.
C15_SlugsUnique ==
    Returned =>
        \A i, j \in 1..Len(outcome.value) :
            i # j => outcome.value[i].slug # outcome.value[j].slug

\* The records of the directory's entries in enumeration order, each built on its
\* own.
RecordsInOrder ==
    [i \in 1..Len(directory) |-> getContentBySlug(directory[i].name, directory, type).value]

\* C16: the returned sequence is the same for every order in which the tasks
\* complete: it is the sort of the records taken in enumeration order.
C16_OrderIndependentOfCompletion ==
    Returned => outcome.value = ShapeAll(ArraySort(RecordsInOrder), SlimParameter(slim))

\* C16 witness: a result was returned after a later task completed before an
\* earlier one.
C16_Witness == Returned /\ Len(settled) >= 2 /\ settled[1] > settled[2]

\* C17: the sort has run, or a result has been returned, only when a task was
\* launched for every entry and every task has completed successfully.
C17_SortOnlyAfterJoin ==
    (pc = "returned" \/ articles # <<>>) =>
        /\ Len(tasks) = Len(directory)
        /\ Len(settled) = Len(tasks)
        /\ \A i \in 1..Len(tasks) : tasks[i].st = "fulfilled"

\* C17 witness: a result of two or more records was returned.
C17_Witness == Returned /\ Len(tasks) >= 2 /\ articles # <<>>

\* C18: a raw date that parses is replaced by the UTC string of the same instant
\* (to the second, the precision of the string), re-parsing it gives a valid
\* date, and every frontmatter.date that is present re-parses to a valid date.
C18_PresentDateIsValidUTC ==
    Built =>
        LET articleDate == Parsed.value.articleDate
            date == DateOf(single.value)
        IN  /\ (articleDate # NaN =>
                    /\ date = UTCStr(articleDate \div MsPerSec)
                    /\ IsValidDate(date)
                    /\ NewDate(date) \div MsPerSec = articleDate \div MsPerSec)
            /\ (date # Undefined => IsValidDate(date))

\* What the call under way returned or threw, once it has ended.
Result == IF pc = "built" THEN single ELSE outcome
SecondCallEnded == previous # NoOutcome /\ pc \in {"built", "returned", "threw"}

C20_AllOrNothing ==
    pc = "built" =>
        /\ single.ok =>
              /\ DOMAIN single.value = {"slug", "frontmatter", "content", "source"}
              /\ FileRead.ok
              /\ single.value.content = Matter(FileRead.value).value.content
              /\ Serialize(single.value.content).ok
              /\ single.value.source = Serialize(single.value.content).value
        /\ (~FileRead.ok \/ (Parsed.ok /\ ~Serialize(Parsed.value.content).ok)) => ~single.ok

\* C20 witness: the file was read and parsed, the compilation failed, and the call
\* failed with the compiler's error.
C20_Witness ==
    pc = "built" /\ Parsed.ok /\ ~single.ok /\ single.error.name = "MDXError"

\* The task that failed first in time.
FirstFailed ==
    settled[CHOOSE k \in 1..Len(settled) :
                /\ tasks[settled[k]].st = "rejected"
                /\ \A m \in 1..(k - 1) : tasks[settled[m]].st # "rejected"]

\* C21: from the moment a task has failed the aggregation is failed, with the
\* error of the task that failed first in time, whatever is still pending; the
\* error thrown is that one; and every pending task can still run to its end.
C21_FailFastNoCancel ==
    pc # "start" =>
        /\ (\E i \in 1..Len(tasks) : tasks[i].st = "rejected")
              => allPromise = Rejected(tasks[FirstFailed].reason)
        /\ pc = "threw" => outcome = Throw(tasks[FirstFailed].reason)
        /\ \A i \in 1..Len(tasks) : tasks[i].st = "pending" => ENABLED Settle(i)

\* C21 witness: two files failed with different errors, the later entry first,
\* and the aggregation threw the error of that one.
C21_Witness ==
    /\ pc = "threw"
    /\ \E i, j \in 1..Len(tasks) :
          /\ i < j
          /\ tasks[i].st = "rejected"
          /\ tasks[j].st = "rejected"
          /\ tasks[i].reason # tasks[j].reason
          /\ FirstFailed = j
          /\ outcome.error = tasks[j].reason

\* C22: with every per-file task eventually succeeding or failing, the
\* aggregation eventually returns the collection or fails.
C22_Terminates == <>(pc \in {"returned", "threw"})

\* C22 witness: the aggregation of two files has ended with every task settled.
C22_Witness ==
    /\ pc \in {"returned", "threw"}
    /\ Len(tasks) >= 2
    /\ \A i \in 1..Len(tasks) : tasks[i].st # "pending"

\* C23: in slim mode no returned record has a content field or a source field.
C23_SlimDropsContentAndSource ==
    (Returned /\ SlimMode) =>
        \A i \in 1..Len(outcome.value) :
            DOMAIN outcome.value[i] \cap {"content", "source"} = {}

\* The sorted records as a full-mode and as a slim-mode call return them.
FullResult == ShapeAll(articles, Bool(FALSE))
SlimResult == ShapeAll(articles, Bool(TRUE))

C30_OmittedFlagIsSlim ==
    Returned =>
        /\ slim = Undefined => outcome.value = ShapeAll(articles, Bool(TRUE))
        /\ (\E i \in 1..Len(outcome.value) : "source" \in DOMAIN outcome.value[i])
              => slim \in {Null, Bool(FALSE), Num(0), Str("")}

\* C30 witness: a call without the third argument returned a record.
C30_Witness == Returned /\ slim = Undefined /\ Len(outcome.value) >= 1

ReservedKeys == {"date", "tags", "type"}

\* C25: every key of the file's front matter other than date, tags and type is in
\* the returned frontmatter with the same value, and the returned frontmatter
\* has no other key besides date, tags and type.
C25_FreeFormKeysPreserved ==
    Built =>
        LET data == Parsed.value.data
            frontmatter == single.value.frontmatter
        IN  /\ \A key \in DOMAIN data \ ReservedKeys :
                  key \in DOMAIN frontmatter /\ frontmatter[key] = data[key]
            /\ DOMAIN frontmatter = (DOMAIN data \ ReservedKeys) \cup ReservedKeys

\* C25 witness: a record was built from a file with a title, an author and a
\* cover image.
C25_Witness ==
    Built /\ {"title", "author", "coverImage"} \subseteq DOMAIN Parsed.value.data

\* The filesystem calls of the call under way.
CallLog ==
    IF previous = NoOutcome THEN fsLog
    ELSE SubSeq(fsLog, Len(previous.fsLog) + 1, Len(fsLog))

\* C26: a call of getContentBySlug makes one filesystem call, the read of the
\* file of its slug; a call of getAllContentFromDirectory makes one listing and
\* then one read per enumerated entry, in order, and nothing after that.
C26_ExactFilesystemCalls ==
    /\ pc \in {"start", "build"} => CallLog = <<>>
    /\ pc = "built" => CallLog = <<ReadFile(FullPath(StripMdx(slug)))>>
    /\ pc \in {"awaiting", "threw", "returned"} =>
          /\ Len(CallLog) = 1 + Len(directory)
          /\ CallLog[1] = ReadDir
          /\ \A i \in 1..Len(directory) :
                CallLog[i + 1] = ReadFile(FullPath(StripMdx(directory[i].name)))

\* C26 witness: an aggregation of two entries has ended after one listing and
\* two reads.
C26_Witness ==
    /\ pc \in {"threw", "returned"}
    /\ Len(directory) = 2
    /\ Len(CallLog) = 3

\* The slug, frontmatter and content of a record.
Core(article) ==
    [slug |-> article.slug, frontmatter |-> article.frontmatter, content |-> article.content]
Occurrences(records, r) == Cardinality({i \in 1..Len(records) : records[i] = r})

CompileFails(i) ==
    LET p == ReadAndParse(directory[i].name, directory)
    IN  p.ok /\ ~Serialize(p.value.content).ok

\* C28: in either mode a collection is returned only when the compiler ran on
\* the content of every entry and failed on none: every task's record holds the
\* compiled source, also when the returned records do not.
C28_SlimStillCompiles ==
    Returned =>
        \A i \in 1..Len(directory) :
            /\ ~CompileFails(i)
            /\ tasks[i].st = "fulfilled"
            /\ tasks[i].value.source = Serialize(tasks[i].value.content).value

\* C28 witness: a slim-mode aggregation threw the compiler's error on a
\* directory in which another file loads.
C28_Witness ==
    /\ pc = "threw"
    /\ SlimMode
    /\ outcome.error.name = "MDXError"
    /\ \E i \in 1..Len(directory) : CompileFails(i)
    /\ \E i \in 1..Len(tasks) : tasks[i].st = "fulfilled"

\* The instant of the raw date of the file a returned record was built from.
SourceDate(article) == NewDate(Matter(directory[SourceIndex(article)].file).value.data.date)

\* C29: of two returned records whose source dates are valid, those dated within
\* the same second are in enumeration order, and those dated in different
\* seconds are newest first by their source dates.
C29_OneSecondGranularity ==
    Returned =>
        \A i, j \in 1..Len(outcome.value) :
            LET a == outcome.value[i]
                b == outcome.value[j]
            IN  (i < j /\ SourceDate(a) # NaN /\ SourceDate(b) # NaN) =>
                    IF SourceDate(a) \div MsPerSec = SourceDate(b) \div MsPerSec
                    THEN SourceIndex(a) < SourceIndex(b)
                    ELSE SourceDate(a) > SourceDate(b)

====
